---- MODULE Spec2Model ----
(***************************************************************************)
(* Model of dffml_model_xgboost.xdgregressor.XDGRegressorModel: the       *)
(* adapter instance of a configured directory, the file                    *)
(* <directory>/model.joblib, and coroutines running train, accuracy and    *)
(* predict over record sources.  A coroutine is suspended only while it    *)
(* reads a record from its source or at a yield of predict; everything     *)
(* between two suspension points is one step.                              *)
(***************************************************************************)
EXTENDS Integers, Sequences, FiniteSets, TLC

\* ---------------------------------------------------------------- bounds
MaxKey == 3          \* records have keys 1..MaxKey
MaxCalls == 2        \* train/accuracy/predict calls started in one run

Tasks == {"t1", "t2"}

\* ------------------------------------------------------- records, sources
\* float("nan"): the confidence placeholder, and the value pandas pads a
\* short row with.
NaN == -1

PredictName == "Target"

Scalar(v) == [scalar |-> TRUE, val |-> <<v>>]
Vector(s) == [scalar |-> FALSE, val |-> s]

\* A record: a key, the values of the configured features in configured
\* order (Feature1, Feature2) and the target.  Every third record carries a
\* 2-element vector under Feature2, the others a scalar.
MkRecord(k) ==
    [key |-> k,
     features |-> <<Scalar(k),
                    IF k % 3 = 0 THEN Vector(<<k, k + 1>>) ELSE Scalar(k + 1)>>,
     target |-> 2 * k + 3 * (k + 1)]

Records == {MkRecord(k) : k \in 1..MaxKey}

\* The sources of the model: the records with keys 1..n in key order, for
\* every n up to MaxKey (the empty source for n = 0).  A source never holds
\* the same record twice (MemorySource keeps its records in a dict by key).
FirstRecords(n) == [k \in 1..n |-> MkRecord(k)]

Sources == {FirstRecords(n) : n \in 0..MaxKey}

\* --------------------------------------------------------- pure functions
\* np.isscalar(feature)
IsScalar(feature) == feature.scalar

RECURSIVE RecordDataFrom(_, _)
RecordDataFrom(feats, k) ==
    IF k > Len(feats) THEN <<>>
    ELSE (IF IsScalar(feats[k]) THEN <<feats[k].val[1]>> ELSE feats[k].val)
         \o RecordDataFrom(feats, k + 1)

\* record_data of one record: scalars contribute one element, vectors all
\* of theirs, in feature order.
RecordData(record) == RecordDataFrom(record.features, 1)

RECURSIVE MaxLen(_, _)
MaxLen(rows, k) ==
    IF k > Len(rows) THEN 0
    ELSE LET rest == MaxLen(rows, k + 1)
         IN IF Len(rows[k]) > rest THEN Len(rows[k]) ELSE rest

Width(rows) == MaxLen(rows, 1)

\* pd.DataFrame(list of lists): one row per list, as many columns as the
\* longest list, shorter rows padded with NaN.  No error on ragged input.
DataFrame(xdata) ==
    [k \in 1..Len(xdata) |->
        [c \in 1..Width(xdata) |->
            IF c <= Len(xdata[k]) THEN xdata[k][c] ELSE NaN]]

\* pd.DataFrame(list of scalars): one column.
Column(ydata) == [k \in 1..Len(ydata) |-> <<ydata[k]>>]

Ragged(xdata) == \E i, j \in 1..Len(xdata) : Len(xdata[i]) # Len(xdata[j])

\* ------------------------------------------------- fitted-model handles
None == [kind |-> "none", x |-> <<>>, y |-> <<>>]

\* xgb.XGBRegressor(n_estimators, learning_rate, max_depth=2, subsample=0.8):
\* a fresh regressor that has not been fitted.
XGBRegressor == [kind |-> "unfitted", x |-> <<>>, y |-> <<>>]

\* regressor.fit(x_data, y_data) that returns: the regressor now holds the
\* model of (x_data, y_data) alone, whatever it held before.
Fit(reg, x, y) == [kind |-> "fitted", x |-> x, y |-> y]

NotSavedNever(h) == FALSE

\* `not self.saved`
NotSaved(h) == h.kind = "none"

\* regressor.predict(table): needs a fitted regressor and a table as wide
\* as the one it was fitted on.
PredictError(m, table) ==
    IF m.kind # "fitted" THEN "NotFittedError"
    ELSE IF Width(table) # Width(m.x) THEN "ValueError"
    ELSE ""

PredictRow(m, row) == [model |-> m, row |-> row]

Predict(m, table) == [k \in 1..Len(table) |-> PredictRow(m, table[k])]

\* r2_score(actuals, predictions)
R2Score(actuals, predictions) == <<actuals, predictions>>

\* record.predicted(name, value, confidence)
Predicted(record, name, value, confidence) ==
    [record |-> record, name |-> name, value |-> value,
     confidence |-> confidence]

\* ------------------------------------------------------------ the file
NoFile == [fmt |-> "absent", obj |-> None]

\* joblib.dump(obj, path), joblib.load(path)
Dump(obj) == [fmt |-> "joblib", obj |-> obj]
Load(blob) == blob.obj

IsFileNever(dir, f) == FALSE

\* self.saved_filepath.is_file()
IsFile(dir, f) == dir /\ f.fmt # "absent"

\* ---------------------------------------------------------------- state
VARIABLES
    dirExists,     \* the configured directory exists on disk
    file,          \* content of <directory>/model.joblib, or NoFile
    constructed,   \* __init__ has run: there is an adapter instance
    saved,         \* self.saved of the adapter instance
    task,          \* task[t]: the coroutine of call slot t
    calls,         \* number of calls started
    trained        \* history: the sources of the train calls that returned
                   \* on this adapter instance, in order

vars == <<dirExists, file, constructed, saved, task, calls, trained>>

Idle ==
    [pc |-> "idle", op |-> "", src |-> <<>>, i |-> 0,
     xdata |-> <<>>, ydata |-> <<>>, input_data |-> <<>>,
     ext |-> <<>>, predictions |-> <<>>, j |-> 0, yielded |-> <<>>,
     result |-> <<>>, err |-> ""]

Free(t) == task[t].pc \in {"idle", "returned", "raised"}

\* Call slots are interchangeable: a new call takes the first free one.
FirstFree(t) == Free(t) /\ (t = "t1" \/ ~Free("t1"))

\* A finished call: what the caller sees (returned or raised, the error,
\* the value returned), and the table that was handed to the external
\* regressor.
Finished(tk, pc, err) ==
    [Idle EXCEPT !.pc = pc, !.op = tk.op, !.err = err,
                 !.ext = tk.ext, !.result = tk.result]

Raised(tk, err) == Finished(tk, "raised", err)

Returned(tk) == Finished(tk, "returned", "")

\* A blob left in the directory by an earlier run: the model train fits on
\* the source holding every record.
EarlierBlob ==
    LET src == FirstRecords(MaxKey) IN
    Dump(Fit(XGBRegressor,
             DataFrame([k \in 1..Len(src) |-> RecordData(src[k])]),
             Column([k \in 1..Len(src) |-> src[k].target])))

Init ==
    /\ dirExists \in BOOLEAN
    /\ file \in (IF dirExists THEN {NoFile, EarlierBlob} ELSE {NoFile})
    /\ constructed = FALSE
    /\ saved = None
    /\ task = [t \in Tasks |-> Idle]
    /\ calls = 0
    /\ trained = <<>>

\* XDGRegressorModel.__init__: the adapter instance of the directory is
\* constructed, or, once the calls on the instance before it have ended, a
\* fresh one is.
Construct ==
    /\ \A t \in Tasks : Free(t)
    /\ constructed' = TRUE
    /\ saved' = IF IsFile(dirExists, file) THEN Load(file) ELSE None
    /\ trained' = <<>>
    /\ UNCHANGED <<dirExists, file, task, calls>>

Start(op, src) == [Idle EXCEPT !.pc = "reading", !.op = op, !.src = src]

\* train is called: runs up to the first record read.
CallTrain(t, src) ==
    /\ FirstFree(t) /\ constructed /\ calls < MaxCalls
    /\ task' = [task EXCEPT ![t] = Start("train", src)]
    /\ calls' = calls + 1
    /\ UNCHANGED <<dirExists, file, constructed, saved, trained>>

\* accuracy or predict is called: the guard on self.saved, then up to the
\* first record read of getInputData.
CallInfer(t, op, src) ==
    /\ FirstFree(t) /\ constructed /\ calls < MaxCalls
    /\ task' = [task EXCEPT ![t] =
                  IF NotSaved(saved)
                  THEN Raised(Start(op, src), "ModelNotTrained")
                  ELSE Start(op, src)]
    /\ calls' = calls + 1
    /\ UNCHANGED <<dirExists, file, constructed, saved, trained>>

CallAccuracy(t, src) == CallInfer(t, "accuracy", src)

CallPredict(t, src) == CallInfer(t, "predict", src)

\* One iteration of train's `async for`.
TrainRead(t) ==
    LET tk == task[t] IN
    /\ tk.pc = "reading" /\ tk.op = "train" /\ tk.i < Len(tk.src)
    /\ LET record == tk.src[tk.i + 1] IN
       task' = [task EXCEPT ![t] =
                  [tk EXCEPT !.i = tk.i + 1,
                             !.xdata = Append(tk.xdata, RecordData(record)),
                             !.ydata = Append(tk.ydata, record.target)]]
    /\ UNCHANGED <<dirExists, file, constructed, saved, calls, trained>>

\* One iteration of getInputData's `async for`.
InputRead(t) ==
    LET tk == task[t] IN
    /\ tk.pc = "reading" /\ tk.op \in {"accuracy", "predict"}
    /\ tk.i < Len(tk.src)
    /\ task' = [task EXCEPT ![t] =
                  [tk EXCEPT !.i = tk.i + 1,
                             !.input_data =
                                 Append(tk.input_data, tk.src[tk.i + 1])]]
    /\ UNCHANGED <<dirExists, file, constructed, saved, calls, trained>>

\* The source raises while a record is read.
ReadFail(t) ==
    /\ task[t].pc = "reading"
    /\ task' = [task EXCEPT ![t] = Raised(task[t], "SourceError")]
    /\ UNCHANGED <<dirExists, file, constructed, saved, calls, trained>>

\* train with the dump placed before the fit.
TrainOutcomeDumpFirst(prev, oldfile, dir, x, y, fitOk) ==
    LET fresh == XGBRegressor IN
    IF ~dir THEN [saved |-> fresh, file |-> oldfile,
                  err |-> "FileNotFoundError"]
    ELSE IF ~fitOk
         THEN [saved |-> fresh, file |-> Dump(fresh), err |-> "FitError"]
         ELSE [saved |-> Fit(fresh, x, y), file |-> Dump(Fit(fresh, x, y)),
               err |-> ""]

\* train that goes on from the model already in self.saved.
TrainOutcomeWarm(prev, oldfile, dir, x, y, fitOk) ==
    LET model == IF prev.kind = "fitted"
                 THEN Fit(prev, prev.x \o x, prev.y \o y)
                 ELSE Fit(XGBRegressor, x, y)
    IN IF ~fitOk
       THEN [saved |-> XGBRegressor, file |-> oldfile, err |-> "FitError"]
       ELSE IF ~dir
            THEN [saved |-> model, file |-> oldfile,
                  err |-> "FileNotFoundError"]
            ELSE [saved |-> model, file |-> Dump(model), err |-> ""]

\* What train does once the source is exhausted: a fresh regressor is put
\* in self.saved, then fitted, then dumped.  fitOk: the external fit accepts
\* the data.  The result is the new self.saved, the new file and the error
\* raised ("" when train returns).
TrainOutcome(prev, oldfile, dir, x, y, fitOk) ==
    LET fresh == XGBRegressor IN
    IF ~fitOk THEN [saved |-> fresh, file |-> oldfile, err |-> "FitError"]
    ELSE IF ~dir
         THEN [saved |-> Fit(fresh, x, y), file |-> oldfile,
               err |-> "FileNotFoundError"]
         ELSE [saved |-> Fit(fresh, x, y), file |-> Dump(Fit(fresh, x, y)),
               err |-> ""]

TrainFit(t) ==
    LET tk == task[t] IN
    /\ tk.pc = "reading" /\ tk.op = "train" /\ tk.i = Len(tk.src)
    /\ \E fitOk \in BOOLEAN :
         LET x_data == DataFrame(tk.xdata)
             y_data == Column(tk.ydata)
             out == TrainOutcome(saved, file, dirExists,
                                 x_data, y_data, fitOk)
         IN /\ saved' = out.saved
            /\ file' = out.file
            /\ task' = [task EXCEPT ![t] =
                          LET called == [tk EXCEPT !.ext = <<x_data>>]
                          IN IF out.err = "" THEN Returned(called)
                             ELSE Raised(called, out.err)]
            /\ trained' = IF out.err = ""
                          THEN Append(trained, tk.src)
                          ELSE trained
    /\ UNCHANGED <<dirExists, constructed, calls>>

RECURSIVE XDataOf(_, _)
XDataOf(input_data, k) ==
    IF k > Len(input_data) THEN <<>>
    ELSE <<RecordData(input_data[k])>> \o XDataOf(input_data, k + 1)

Actuals(input_data) ==
    [k \in 1..Len(input_data) |-> input_data[k].target]

\* accuracy once getInputData has returned
AccuracyScore(t) ==
    LET tk == task[t]
        xdata == XDataOf(tk.input_data, 1)
        table == DataFrame(xdata)
        err == PredictError(saved, table)
    IN
    /\ tk.pc = "reading" /\ tk.op = "accuracy" /\ tk.i = Len(tk.src)
    /\ task' = [task EXCEPT ![t] =
                  LET called == [tk EXCEPT !.ext = <<table>>] IN
                  IF err # "" THEN Raised(called, err)
                  ELSE Returned([called EXCEPT !.result =
                                   R2Score(Actuals(tk.input_data),
                                           Predict(saved, table))])]
    /\ UNCHANGED <<dirExists, file, constructed, saved, calls, trained>>

\* zip(input_data, predictions) stops at the shorter of the two.
ZipLen(tk) ==
    IF Len(tk.input_data) < Len(tk.predictions)
    THEN Len(tk.input_data) ELSE Len(tk.predictions)

ZipValueReversed(predictions, k, cur, table) ==
    predictions[Len(predictions) + 1 - k]

ZipValueLazy(predictions, k, cur, table) == PredictRow(cur, table[k])

\* The value attached to the k-th record of zip(input_data, predictions);
\* cur is self.saved and table the feature table at the time of the yield.
ZipValue(predictions, k, cur, table) == predictions[k]

\* One iteration of predict's final loop, from a task whose predictions are
\* computed: record.predicted(...) and yield, or the end of the generator.
LoopStep(tk, cur) ==
    IF tk.j < ZipLen(tk)
    THEN LET k == tk.j + 1
             value == ZipValue(tk.predictions, k, cur, tk.ext[1])
         IN [tk EXCEPT !.pc = "yielding", !.j = k,
                       !.yielded = Append(tk.yielded,
                                          Predicted(tk.input_data[k],
                                                    PredictName, value, NaN))]
    ELSE Returned(tk)

\* predict once getInputData has returned: the whole table is predicted,
\* then the final loop runs up to its first yield.
PredictCompute(t) ==
    LET tk == task[t]
        xdata == XDataOf(tk.input_data, 1)
        table == DataFrame(xdata)
        err == PredictError(saved, table)
    IN
    /\ tk.pc = "reading" /\ tk.op = "predict" /\ tk.i = Len(tk.src)
    /\ task' = [task EXCEPT ![t] =
                  LET called == [tk EXCEPT !.ext = <<table>>] IN
                  IF err # "" THEN Raised(called, err)
                  ELSE LoopStep([called EXCEPT !.predictions =
                                    Predict(saved, table)],
                                saved)]
    /\ UNCHANGED <<dirExists, file, constructed, saved, calls, trained>>

\* The consumer asks for the next record and there is one.
PredictYield(t) ==
    LET tk == task[t] IN
    /\ tk.pc = "yielding" /\ tk.j < ZipLen(tk)
    /\ task' = [task EXCEPT ![t] = LoopStep(tk, saved)]
    /\ UNCHANGED <<dirExists, file, constructed, saved, calls, trained>>

\* The consumer asks for the next record and the loop is exhausted.
PredictEnd(t) ==
    LET tk == task[t] IN
    /\ tk.pc = "yielding" /\ ~(tk.j < ZipLen(tk))
    /\ task' = [task EXCEPT ![t] = LoopStep(tk, saved)]
    /\ UNCHANGED <<dirExists, file, constructed, saved, calls, trained>>

Next ==
    \/ Construct
    \/ \E t \in Tasks, src \in Sources : CallTrain(t, src)
    \/ \E t \in Tasks, src \in Sources : CallAccuracy(t, src)
    \/ \E t \in Tasks, src \in Sources : CallPredict(t, src)
    \/ \E t \in Tasks : TrainRead(t)
    \/ \E t \in Tasks : InputRead(t)
    \/ \E t \in Tasks : ReadFail(t)
    \/ \E t \in Tasks : TrainFit(t)
    \/ \E t \in Tasks : AccuracyScore(t)
    \/ \E t \in Tasks : PredictCompute(t)
    \/ \E t \in Tasks : PredictYield(t)
    \/ \E t \in Tasks : PredictEnd(t)

Spec == Init /\ [][Next]_vars

\* ------------------------------------------------- vocabulary of the claims
\* The feature table and target column of a whole source, computed from the
\* records directly.
TableOf(src) == DataFrame([k \in 1..Len(src) |-> RecordData(src[k])])

TargetsOf(src) == Column([k \in 1..Len(src) |-> src[k].target])

\* What an adapter that was never trained holds after one train on src.
FreshTrain(src) == Fit(XGBRegressor, TableOf(src), TargetsOf(src))

\* The step in which call slot t starts a call of accuracy or predict.
StartsInfer(t) ==
    /\ calls' = calls + 1
    /\ task'[t] # task[t]
    /\ task'[t].op \in {"accuracy", "predict"}

\* The step in which the train call of slot t returns or raises.
TrainEnds(t) ==
    /\ task[t].op = "train" /\ task[t].pc = "reading"
    /\ task'[t].pc \in {"returned", "raised"}

\* The step in which a call of slot t, its source exhausted, builds its
\* feature table.
BuildsTable(t) ==
    /\ task[t].pc = "reading" /\ task[t].i = Len(task[t].src)
    /\ task'[t] # task[t]

\* The rows the call of slot t has collected from its records.
RowsOf(tk) ==
    IF tk.op = "train" THEN tk.xdata ELSE XDataOf(tk.input_data, 1)

\* The step in which an adapter instance is constructed.
Constructs == calls' = calls /\ task' = task /\ constructed'

\* ------------------------------------------------------------------ C1
\* C1: an adapter constructed while no model.joblib exists has a null
\* handle, and a call of accuracy or predict on a null handle raises
\* ModelNotTrained at once (no record is read, no table is handed to the
\* regressor), leaving the handle and the file as they were.
C1_UntrainedRefuses ==
    [][/\ Constructs /\ file = NoFile => saved' = None
       /\ \A t \in Tasks :
            StartsInfer(t) /\ saved = None
            => /\ task'[t].pc = "raised"
               /\ task'[t].err = "ModelNotTrained"
               /\ task'[t].ext = <<>>
               /\ saved' = saved
               /\ file' = file]_vars

C1_Witness ==
    \E t \in Tasks :
        /\ task[t].pc = "raised" /\ task[t].err = "ModelNotTrained"
        /\ task[t].op = "predict"
        /\ constructed /\ saved = None /\ trained = <<>>
        /\ file = NoFile

\* ------------------------------------------------------------------ C2
\* C2: when train returns, model.joblib holds the dump of the model fitted
\* on the call's data, which is also the adapter's handle; a blob, once
\* there, stays a fitted model's dump; an adapter constructed while the blob
\* exists starts with the blob's model as its handle; the handle changes
\* only at construction or at the end of a train call; and a call of
\* accuracy or predict on a fitted handle does not raise ModelNotTrained.
C2_TrainPersists ==
    [][/\ \A t \in Tasks :
            TrainEnds(t) /\ task'[t].pc = "returned"
            => LET fitted == Fit(XGBRegressor, DataFrame(task[t].xdata),
                                 Column(task[t].ydata))
               IN /\ saved' = fitted
                  /\ file' = Dump(fitted)
                  /\ Load(file') = saved'
       /\ file # NoFile => file' # NoFile /\ Load(file').kind = "fitted"
       /\ Constructs /\ file # NoFile
          => saved' = Load(file) /\ saved'.kind = "fitted"
       /\ saved' # saved
          => Constructs \/ \E t \in Tasks : TrainEnds(t)
       /\ \A t \in Tasks :
            StartsInfer(t) /\ saved.kind = "fitted"
            => task'[t].pc = "reading"]_vars

\* A predict call is yielding on an adapter instance on which no train call
\* returned, from the blob that a train call of this run wrote.
C2_Witness ==
    \E t \in Tasks :
        /\ task[t].op = "predict" /\ task[t].pc = "yielding"
        /\ trained = <<>> /\ calls = 2
        /\ file # NoFile /\ file # EarlierBlob
        /\ saved = Load(file)
        /\ task[t].yielded[1].value.model = Load(file)

\* ------------------------------------------------------------------ C3
\* C3: a train call either returns with handle and blob both the newly
\* fitted model, or raises with handle and blob as they were.
C3_AllOrNothing ==
    [][\A t \in Tasks :
         TrainEnds(t)
         => IF task'[t].pc = "returned"
            THEN saved'.kind = "fitted" /\ file' = Dump(saved')
            ELSE saved' = saved /\ file' = file]_vars

\* ------------------------------------------------------------------ C4
\* C4: a train call that raises while reading a record or in fit leaves
\* model.joblib as it was.
C4_FailedTrainKeepsBlob ==
    [][\A t \in Tasks :
         TrainEnds(t) /\ task'[t].err \in {"SourceError", "FitError"}
         => file' = file]_vars

\* A train call raised in fit and the blob of the earlier run is still there.
C4_Witness ==
    \E t \in Tasks :
        /\ task[t].op = "train" /\ task[t].pc = "raised"
        /\ task[t].err = "FitError"
        /\ file = EarlierBlob

\* ------------------------------------------------------------------ C5
\* C5: whenever the adapter's handle is not a fitted model, a call of
\* accuracy or predict raises ModelNotTrained.
C5_NoModelRefuses ==
    [][\A t \in Tasks :
         StartsInfer(t) /\ saved.kind # "fitted"
         => task'[t].pc = "raised" /\ task'[t].err = "ModelNotTrained"]_vars

\* ------------------------------------------------------------------ C6
\* C6: a call whose records gave rows of different lengths raises
\* FeatureShapeError when it builds its table, and hands no table to the
\* external regressor.
C6_RaggedRejected ==
    [][\A t \in Tasks :
         BuildsTable(t) /\ Ragged(RowsOf(task[t]))
         => /\ task'[t].pc = "raised"
            /\ task'[t].err = "FeatureShapeError"
            /\ task'[t].ext = <<>>]_vars

\* ------------------------------------------------------------------ C7
\* What a predict call that has yielded j records has yielded: the first j
\* records of its source in order, each with the prediction one fitted model
\* makes from that record's own row of the table, and NaN as confidence.
YieldedInOrder(tk) ==
    /\ Len(tk.yielded) = tk.j /\ tk.j <= Len(tk.src)
    /\ Len(tk.predictions) = Len(tk.src)
    /\ \E model \in {tk.predictions[1].model} :
         /\ model.kind = "fitted"
         /\ \A k \in 1..tk.j :
              tk.yielded[k] =
                  [record |-> tk.src[k], name |-> "Target",
                   value |-> PredictRow(model, TableOf(tk.src)[k]),
                   confidence |-> NaN]

\* C7: a predict call that does not raise yields its source's records in
\* order, each once, each with the prediction made from its own row and a
\* NaN confidence, and ends after the last of them (or at once when the
\* source is empty); a call that has yielded a record does not raise.
C7_PredictYieldsAll ==
    [][\A t \in Tasks :
         /\ task'[t].pc = "yielding" => YieldedInOrder(task'[t])
         /\ task[t].pc = "yielding"
            => task'[t].pc \in {"yielding", "returned"}
         /\ task[t].pc = "yielding" /\ task'[t].pc = "returned"
            => task[t].j = Len(task[t].src)
         /\ task[t].op = "predict" /\ task[t].pc = "reading"
            /\ task'[t].pc = "returned"
            => task[t].src = <<>>]_vars

\* A predict call has yielded every record of a source of two or more.
C7_Witness ==
    \E t \in Tasks :
        /\ task[t].op = "predict" /\ task[t].pc = "yielding"
        /\ Len(task[t].src) >= 2 /\ task[t].j = Len(task[t].src)
        /\ task[t].yielded[1].record # task[t].yielded[2].record

\* ------------------------------------------------------------------ C8
\* C8: when train returns, handle and blob are the model a never-trained
\* adapter holds after one train on the same source, whatever the handle was
\* before.
C8_RetrainReplaces ==
    [][\A t \in Tasks :
         TrainEnds(t) /\ task'[t].pc = "returned"
         => /\ saved' = FreshTrain(task[t].src)
            /\ file' = Dump(FreshTrain(task[t].src))]_vars

\* Two train calls on one adapter instance returned, on different sources,
\* and the adapter holds the model of the second.
C8_Witness ==
    /\ Len(trained) = 2
    /\ trained[1] # trained[2]
    /\ trained[1] # <<>>
    /\ saved = FreshTrain(trained[2])
    /\ file = Dump(FreshTrain(trained[2]))

\* ------------------------------------------------------------------ C9
\* C9: a train call whose fit succeeds while the configured directory does
\* not exist returns and leaves the fitted model in model.joblib.
C9_SaveCreatesDirectory ==
    [][\A t \in Tasks :
         /\ TrainEnds(t) /\ ~dirExists
         /\ task'[t].err \notin {"SourceError", "FitError"}
         => /\ task'[t].pc = "returned"
            /\ file' = Dump(saved')]_vars

\* ----------------------------------------------------------------- C10
\* C10: the predictions of a predict call are all made by the handle the
\* adapter had when the call finished reading its records, and every record
\* the call yields carries a prediction of that one model, whatever train
\* calls end meanwhile.
C10_OneModelPerPredict ==
    [][\A t \in Tasks :
         /\ task[t].op = "predict" /\ task[t].pc = "reading"
            /\ task'[t].pc = "yielding"
            => \A k \in 1..Len(task'[t].predictions) :
                 task'[t].predictions[k].model = saved
         /\ task'[t].pc = "yielding"
            => \A k \in 1..Len(task'[t].yielded) :
                 task'[t].yielded[k].value.model
                     = task'[t].predictions[1].model
         /\ task[t].pc = "yielding" /\ task'[t].pc = "yielding"
            => task'[t].predictions = task[t].predictions]_vars

\* A predict call has yielded two records with the predictions of the model
\* it started with, after a train call replaced the adapter's handle.
C10_Witness ==
    \E t \in Tasks :
        /\ task[t].op = "predict" /\ task[t].pc = "yielding"
        /\ task[t].j >= 2
        /\ Len(trained) = 1
        /\ saved = FreshTrain(trained[1])
        /\ task[t].yielded[1].value.model # saved
        /\ task[t].yielded[2].value.model # saved

====
